---------------------------- MODULE Spec2Model ----------------------------
(***************************************************************************)
(* The client session view of src/src/App.jsx: the axios request          *)
(* interceptor, the React state of App, its event handlers and the        *)
(* continuations that run when a response arrives.                        *)
(*                                                                         *)
(* One action is one run-to-completion task of the browser's event loop:  *)
(* a user event handler up to its first await, or the continuation of an  *)
(* async handler after its awaited request settles.  The render that      *)
(* follows a state update and the effect of useEffect([isLoggedIn]) that   *)
(* the render schedules are part of the task that made the update.        *)
(* The backend is not part of the program: a response is any value the    *)
(* endpoint's contract allows, or a failure, chosen when it is delivered. *)
(***************************************************************************)
EXTENDS Naturals, Sequences, FiniteSets, Bags, TLC

\* ------------------------------------------------------------------ bounds
\* Number of tasks (user events and settled requests) of a run.
MaxSteps == 9

\* ------------------------------------------------------- values of the model
NoToken == "<null>"            \* localStorage.getItem on a missing key
Tokens == {"t1", "t2"}         \* tokens the login endpoint can hand out
NoFile == "<no file>"          \* file === null / undefined
Files == {"a.pdf", "b.pdf"}    \* file.name of the selectable files
Names == {"", "u"}             \* values typed into username / password
Questions == {"", "q"}         \* values typed into the question input
Answers == {"a1", "a2"}        \* res.data.answer
NoAudio == 0                   \* audioUrl === null
NoAlert == "<none>"            \* the task showed no alert
\* Alert texts are the source's, in ASCII (its emoji dropped, its dash as "-").
NoBody == "<no body>"          \* a GET carries no body

\* Language catalogs the backend can serve: code -> display name.
LangName(c) == IF c = "en" THEN "English" ELSE IF c = "fr" THEN "French" ELSE "Unknown"
Catalog(S) == [c \in S |-> LangName(c)]
EmptyCatalog == Catalog({})
Catalogs == {Catalog({"en", "fr"}), Catalog({"fr", ""})}

\* Q&A logs the backend can serve: ordered lists of (question, answer) pairs.
QAPairs == {<<"q", "a1">>, <<"q", "a2">>}
HistoryLists == {<< <<"q", "a1">> >>, << <<"q", "a2">>, <<"q", "a1">>, <<"q", "a1">> >>}

\* A response: a failure (network error or non-2xx status, axios rejects), or
\* a 2xx response with a data object.  A data object without the field the
\* handler reads is [detail |-> ...].
Failure == [ok |-> FALSE]
Success(data) == [ok |-> TRUE, data |-> data]
NoField == [detail |-> "x"]
LoginResponses == {Failure} \cup {Success([token |-> t]) : t \in Tokens \cup {""}}
                            \cup {Success(NoField)}
LangsResponses == {Failure} \cup {Success([langs |-> c]) : c \in Catalogs}
                            \cup {Success(NoField)}
HistoryResponses == {Failure} \cup {Success([qa_pairs |-> h]) : h \in HistoryLists}
                              \cup {Success(NoField)}
UploadResponses == {Failure, Success(NoField)}
AnswerResponses == {Failure} \cup {Success([answer |-> a]) : a \in Answers}
AudioResponses == {Failure, Success([blob |-> "mp3"])}

VARIABLES
    storage,        \* localStorage["auth_token"]
    file, filename, question, answer, qaHistory, langs, selectedLang, audioUrl,
    showLogin, isLoggedIn, username, password,
    inflight,       \* bag of requests dispatched and not yet settled
    urlCount,       \* number of object URLs created by URL.createObjectURL
    session,        \* history: token of the last processed successful login
                    \* since the last logout, NoToken if none
    lastEvent,      \* history: the task that ran last, what it was given,
                    \* the alert it showed and the requests it dispatched
    afterLogout,    \* history: a logout has run and handleLogin has not been
                    \* invoked since
    steps,          \* tasks run so far (bounded)
    serverLog       \* the backend's persisted Q&A log (not part of the client)

view == <<file, filename, question, answer, qaHistory, langs, selectedLang, audioUrl,
          showLogin, isLoggedIn, username, password>>
vars == <<storage, file, filename, question, answer, qaHistory, langs, selectedLang,
          audioUrl, showLogin, isLoggedIn, username, password, inflight, urlCount,
          session, afterLogout, lastEvent, steps, serverLog>>

\* JavaScript truthiness of a string-or-null value.
Truthy(x) == x \notin {"", NoToken, NoFile}

\* ------------------------------------------------------------- transport
NoAuth == [scheme |-> "none", credentials |-> ""]
Bearer(t) == [scheme |-> "Bearer", credentials |-> t]

\* Mutant of Interceptor: the test of the stored token inverted.
InterceptorInverted(store) == IF ~Truthy(store) THEN Bearer(store) ELSE NoAuth

\* axios.interceptors.request.use: the Authorization header of a request
\* dispatched while localStorage holds `store`.
Interceptor(store) == IF Truthy(store) THEN Bearer(store) ELSE NoAuth

\* A dispatched request: what the transport sends.
Request(url, body, store) == [url |-> url, auth |-> Interceptor(store), body |-> body]

\* Mutant of fetchLangsRequest: sent through a transport without the interceptor.
fetchLangsRequestNoInterceptor(store) == Request("/api/langs", NoBody, NoToken)

\* fetchLangs and fetchHistory up to their await: the request they dispatch.
fetchLangsRequest(store) == Request("/api/langs", NoBody, store)
fetchHistoryRequest(store) == Request("/api/qa-history", NoBody, store)

\* useEffect(() => { if (isLoggedIn) { fetchLangs(); fetchHistory(); } }, [isLoggedIn])
\* after a render in which isLoggedIn went from `was` to `now`.
useEffectRequests(was, now, store) ==
    IF was # now /\ now
    THEN SetToBag({fetchLangsRequest(store)}) (+) SetToBag({fetchHistoryRequest(store)})
    ELSE EmptyBag

Event(op, arg, alert, sent) == [op |-> op, arg |-> arg, alert |-> alert, sent |-> sent]

Init ==
    /\ storage = NoToken
    /\ file = NoFile
    /\ filename = NoFile
    /\ question = ""
    /\ answer = ""
    /\ qaHistory = << >>
    /\ langs = EmptyCatalog
    /\ selectedLang = "en"
    /\ audioUrl = NoAudio
    /\ showLogin = TRUE
    /\ isLoggedIn = FALSE
    /\ username = ""
    /\ password = ""
    /\ inflight = EmptyBag
    /\ urlCount = 0
    /\ session = NoToken
    /\ lastEvent = Event("mount", NoBody, NoAlert, EmptyBag)
    /\ afterLogout = FALSE
    /\ steps = 0
    /\ serverLog = << >>


\* ------------------------------------------------------ frame conditions
\* Every task is one step of the bounded run; no task of the client writes
\* the backend's log.
Tick == steps < MaxSteps /\ steps' = steps + 1 /\ UNCHANGED serverLog
Dispatch(sent) == inflight' = inflight (+) sent
Settle(r, sent) == inflight' = (inflight (-) SetToBag({r})) (+) sent
Pending(url) == {r \in BagToSet(inflight) : r.url = url}

\* ------------------------------------------------------------ user inputs
\* onChange of the username input of the login modal.
setUsername(v) ==
    /\ Tick
    /\ showLogin /\ v # username
    /\ username' = v
    /\ lastEvent' = Event("setUsername", v, NoAlert, EmptyBag)
    /\ UNCHANGED <<storage, file, filename, question, answer, qaHistory, langs,
                   selectedLang, audioUrl, showLogin, isLoggedIn, password, inflight,
                   urlCount, session, afterLogout>>

\* onChange of the password input of the login modal.
setPassword(v) ==
    /\ Tick
    /\ showLogin /\ v # password
    /\ password' = v
    /\ lastEvent' = Event("setPassword", v, NoAlert, EmptyBag)
    /\ UNCHANGED <<storage, file, filename, question, answer, qaHistory, langs,
                   selectedLang, audioUrl, showLogin, isLoggedIn, username, inflight,
                   urlCount, session, afterLogout>>

\* The navbar's Login button (rendered while !isLoggedIn) and the modal's
\* close button (rendered while showLogin).
setShowLogin(v) ==
    /\ Tick
    /\ IF v THEN ~isLoggedIn ELSE showLogin
    /\ v # showLogin
    /\ showLogin' = v
    /\ lastEvent' = Event("setShowLogin", IF v THEN "open" ELSE "close", NoAlert, EmptyBag)
    /\ UNCHANGED <<storage, file, filename, question, answer, qaHistory, langs,
                   selectedLang, audioUrl, isLoggedIn, username, password, inflight,
                   urlCount, session, afterLogout>>

\* onDrop / onChange of the file input (rendered while isLoggedIn); a
\* cancelled file dialog gives files[0] === undefined.
setFile(f) ==
    /\ Tick
    /\ isLoggedIn /\ f # file
    /\ file' = f
    /\ lastEvent' = Event("setFile", f, NoAlert, EmptyBag)
    /\ UNCHANGED <<storage, filename, question, answer, qaHistory, langs, selectedLang,
                   audioUrl, showLogin, isLoggedIn, username, password, inflight,
                   urlCount, session, afterLogout>>

\* onChange of the question input (rendered while isLoggedIn).
setQuestion(q) ==
    /\ Tick
    /\ isLoggedIn /\ q # question
    /\ question' = q
    /\ lastEvent' = Event("setQuestion", q, NoAlert, EmptyBag)
    /\ UNCHANGED <<storage, file, filename, answer, qaHistory, langs, selectedLang,
                   audioUrl, showLogin, isLoggedIn, username, password, inflight,
                   urlCount, session, afterLogout>>

\* onChange of the language select: its options are the keys of langs.
setSelectedLang(c) ==
    /\ Tick
    /\ isLoggedIn /\ c \in DOMAIN langs /\ c # selectedLang
    /\ selectedLang' = c
    /\ lastEvent' = Event("setSelectedLang", c, NoAlert, EmptyBag)
    /\ UNCHANGED <<storage, file, filename, question, answer, qaHistory, langs,
                   audioUrl, showLogin, isLoggedIn, username, password, inflight,
                   urlCount, session, afterLogout>>

\* ----------------------------------------------------------------- login
\* Mutant of LoginInputMissing: only the username is checked.
LoginInputMissingUsernameOnly(u, p) == ~Truthy(u)

\* if (!username || !password)
LoginInputMissing(u, p) == ~Truthy(u) \/ ~Truthy(p)

\* handleLogin up to its await (the modal's Login button).
handleLogin ==
    /\ Tick
    /\ showLogin
    /\ afterLogout' = FALSE
    /\ IF LoginInputMissing(username, password)
       THEN /\ lastEvent' = Event("handleLogin", NoBody,
                                  "Please enter username & password", EmptyBag)
            /\ UNCHANGED inflight
       ELSE LET req == Request("/api/login",
                               [username |-> username, password |-> password], storage)
            IN /\ Dispatch(SetToBag({req}))
               /\ lastEvent' = Event("handleLogin", NoBody, NoAlert, SetToBag({req}))
    /\ UNCHANGED <<storage, file, filename, question, answer, qaHistory, langs,
                   selectedLang, audioUrl, showLogin, isLoggedIn, username, password,
                   urlCount, session>>

\* Mutant of LoginAccepted: any token field is accepted, also an empty one.
LoginAcceptedAnyToken(res) == res.ok /\ "token" \in DOMAIN res.data

\* The try block reached `if (token)` and the token is truthy.
LoginAccepted(res) == res.ok /\ "token" \in DOMAIN res.data /\ Truthy(res.data.token)

\* Mutant of LoginRejectedAlert: no else branch, a 2xx response without a
\* token is dropped silently.
LoginRejectedAlertNoElse(res) == IF res.ok THEN NoAlert ELSE "Invalid credentials"

\* The alert of the else branch (no token) and of the catch block (rejection).
LoginRejectedAlert(res) ==
    IF res.ok THEN "Invalid credentials" ELSE "Login failed. Check your credentials."

\* Mutant of handleLoginSettled: a login that fails removes the stored token.
handleLoginSettledClearsOnFailure(r, res) ==
    /\ Tick
    /\ r \in Pending("/api/login")
    /\ IF LoginAccepted(res)
       THEN LET token == res.data.token
                sent == SetToBag({fetchLangsRequest(token)})
                        (+) SetToBag({fetchHistoryRequest(token)})
                        (+) useEffectRequests(isLoggedIn, TRUE, token)
            IN /\ storage' = token
               /\ isLoggedIn' = TRUE
               /\ showLogin' = FALSE
               /\ session' = token
               /\ Settle(r, sent)
               /\ lastEvent' = Event("handleLoginSettled", res, NoAlert, sent)
       ELSE /\ lastEvent' = Event("handleLoginSettled", res, LoginRejectedAlert(res),
                                  EmptyBag)
            /\ Settle(r, EmptyBag)
            /\ storage' = NoToken
            /\ UNCHANGED <<isLoggedIn, showLogin, session>>
    /\ UNCHANGED <<file, filename, question, answer, qaHistory, langs, selectedLang,
                   audioUrl, username, password, urlCount, afterLogout>>

\* Mutant of handleLoginSettled: setShowLogin(false) is missing.
handleLoginSettledKeepsModal(r, res) ==
    /\ Tick
    /\ r \in Pending("/api/login")
    /\ IF LoginAccepted(res)
       THEN LET token == res.data.token
                sent == SetToBag({fetchLangsRequest(token)})
                        (+) SetToBag({fetchHistoryRequest(token)})
                        (+) useEffectRequests(isLoggedIn, TRUE, token)
            IN /\ storage' = token
               /\ isLoggedIn' = TRUE
               /\ session' = token
               /\ Settle(r, sent)
               /\ lastEvent' = Event("handleLoginSettled", res, NoAlert, sent)
       ELSE /\ lastEvent' = Event("handleLoginSettled", res, LoginRejectedAlert(res),
                                  EmptyBag)
            /\ Settle(r, EmptyBag)
            /\ UNCHANGED <<storage, isLoggedIn, session>>
    /\ UNCHANGED <<file, filename, question, answer, qaHistory, langs, selectedLang,
                   audioUrl, showLogin, username, password, urlCount, afterLogout>>

\* handleLogin after its await: the login request r settled with res.
handleLoginSettled(r, res) ==
    /\ Tick
    /\ r \in Pending("/api/login")
    /\ IF LoginAccepted(res)
       THEN LET token == res.data.token
                sent == SetToBag({fetchLangsRequest(token)})
                        (+) SetToBag({fetchHistoryRequest(token)})
                        (+) useEffectRequests(isLoggedIn, TRUE, token)
            IN /\ storage' = token
               /\ isLoggedIn' = TRUE
               /\ showLogin' = FALSE
               /\ session' = token
               /\ Settle(r, sent)
               /\ lastEvent' = Event("handleLoginSettled", res, NoAlert, sent)
       ELSE /\ lastEvent' = Event("handleLoginSettled", res, LoginRejectedAlert(res),
                                  EmptyBag)
            /\ Settle(r, EmptyBag)
            /\ UNCHANGED <<storage, isLoggedIn, showLogin, session>>
    /\ UNCHANGED <<file, filename, question, answer, qaHistory, langs, selectedLang,
                   audioUrl, username, password, urlCount, afterLogout>>

\* Mutant of handleLogout: the token and the flags are reset, the
\* session-derived view state (history, audio, answer) is not.
handleLogoutKeepsViewState ==
    /\ Tick
    /\ isLoggedIn
    /\ storage' = NoToken
    /\ isLoggedIn' = FALSE
    /\ showLogin' = TRUE
    /\ session' = NoToken
    /\ afterLogout' = TRUE
    /\ lastEvent' = Event("handleLogout", NoBody, NoAlert, EmptyBag)
    /\ UNCHANGED <<qaHistory, audioUrl, answer, inflight, file, filename, question,
                   langs, selectedLang, username, password, urlCount>>

\* Mutant of handleLogout: the login form and the question are reset too.
handleLogoutClearsInputs ==
    /\ Tick
    /\ isLoggedIn
    /\ storage' = NoToken
    /\ isLoggedIn' = FALSE
    /\ showLogin' = TRUE
    /\ qaHistory' = << >>
    /\ audioUrl' = NoAudio
    /\ answer' = ""
    /\ username' = ""
    /\ password' = ""
    /\ question' = ""
    /\ session' = NoToken
    /\ afterLogout' = TRUE
    /\ lastEvent' = Event("handleLogout", NoBody, NoAlert, EmptyBag)
    /\ UNCHANGED <<inflight, file, filename, langs, selectedLang, urlCount>>

\* Mutant of handleLogout: setIsLoggedIn(false) is missing.
handleLogoutKeepsLoggedIn ==
    /\ Tick
    /\ isLoggedIn
    /\ storage' = NoToken
    /\ showLogin' = TRUE
    /\ qaHistory' = << >>
    /\ audioUrl' = NoAudio
    /\ answer' = ""
    /\ session' = NoToken
    /\ afterLogout' = TRUE
    /\ lastEvent' = Event("handleLogout", NoBody, NoAlert, EmptyBag)
    /\ UNCHANGED <<isLoggedIn, inflight, file, filename, question, langs, selectedLang,
                   username, password, urlCount>>

\* handleLogout (the navbar's Logout button, rendered while isLoggedIn).
handleLogout ==
    /\ Tick
    /\ isLoggedIn
    /\ storage' = NoToken
    /\ isLoggedIn' = FALSE
    /\ showLogin' = TRUE
    /\ qaHistory' = << >>
    /\ audioUrl' = NoAudio
    /\ answer' = ""
    /\ session' = NoToken
    /\ afterLogout' = TRUE
    /\ Dispatch(useEffectRequests(isLoggedIn, FALSE, NoToken))
    /\ lastEvent' = Event("handleLogout", NoBody, NoAlert,
                          useEffectRequests(isLoggedIn, FALSE, NoToken))
    /\ UNCHANGED <<file, filename, question, langs, selectedLang, username, password,
                   urlCount>>

\* ---------------------------------------------------------------- loaders
\* Mutant of fetchLangsSettled: a failed request empties the catalog and is
\* reported to the user.
fetchLangsSettledResetsOnFailure(r, res) ==
    /\ Tick
    /\ r \in Pending("/api/langs")
    /\ langs' = IF res.ok
                THEN IF "langs" \in DOMAIN res.data THEN res.data.langs ELSE EmptyCatalog
                ELSE EmptyCatalog
    /\ Settle(r, EmptyBag)
    /\ lastEvent' = Event("fetchLangsSettled", res,
                          IF res.ok THEN NoAlert ELSE "Error fetching langs", EmptyBag)
    /\ UNCHANGED <<storage, file, filename, question, answer, qaHistory, selectedLang,
                   audioUrl, showLogin, isLoggedIn, username, password, urlCount,
                   session, afterLogout>>

\* fetchLangs after its await.
fetchLangsSettled(r, res) ==
    /\ Tick
    /\ r \in Pending("/api/langs")
    /\ langs' = IF res.ok
                THEN IF "langs" \in DOMAIN res.data THEN res.data.langs ELSE EmptyCatalog
                ELSE langs
    /\ Settle(r, EmptyBag)
    /\ lastEvent' = Event("fetchLangsSettled", res, NoAlert, EmptyBag)
    /\ UNCHANGED <<storage, file, filename, question, answer, qaHistory, selectedLang,
                   audioUrl, showLogin, isLoggedIn, username, password, urlCount,
                   session, afterLogout>>

\* Mutant of fetchHistorySettled: the response is merged into the list held.
fetchHistorySettledMerges(r, res) ==
    /\ Tick
    /\ r \in Pending("/api/qa-history")
    /\ qaHistory' = IF res.ok
                    THEN IF "qa_pairs" \in DOMAIN res.data
                         THEN qaHistory \o res.data.qa_pairs ELSE qaHistory
                    ELSE qaHistory
    /\ Settle(r, EmptyBag)
    /\ lastEvent' = Event("fetchHistorySettled", res, NoAlert, EmptyBag)
    /\ UNCHANGED <<storage, file, filename, question, answer, langs, selectedLang,
                   audioUrl, showLogin, isLoggedIn, username, password, urlCount,
                   session, afterLogout>>

\* fetchHistory after its await.
fetchHistorySettled(r, res) ==
    /\ Tick
    /\ r \in Pending("/api/qa-history")
    /\ qaHistory' = IF res.ok
                    THEN IF "qa_pairs" \in DOMAIN res.data THEN res.data.qa_pairs ELSE << >>
                    ELSE qaHistory
    /\ Settle(r, EmptyBag)
    /\ lastEvent' = Event("fetchHistorySettled", res, NoAlert, EmptyBag)
    /\ UNCHANGED <<storage, file, filename, question, answer, langs, selectedLang,
                   audioUrl, showLogin, isLoggedIn, username, password, urlCount,
                   session, afterLogout>>

\* ----------------------------------------------------------------- upload
\* Mutant of uploadFile: the check that a file is selected is missing.
uploadFileUnchecked ==
    /\ Tick
    /\ isLoggedIn
    /\ LET req == Request("/api/upload", [file |-> file], storage)
       IN /\ Dispatch(SetToBag({req}))
          /\ lastEvent' = Event("uploadFile", NoBody, NoAlert, SetToBag({req}))
    /\ UNCHANGED <<storage, file, filename, question, answer, qaHistory, langs,
                   selectedLang, audioUrl, showLogin, isLoggedIn, username, password,
                   urlCount, session, afterLogout>>

\* uploadFile up to its await (the Upload button, rendered while isLoggedIn).
uploadFile ==
    /\ Tick
    /\ isLoggedIn
    /\ IF ~Truthy(file)
       THEN /\ lastEvent' = Event("uploadFile", NoBody, "Pick a file first!", EmptyBag)
            /\ UNCHANGED inflight
       ELSE LET req == Request("/api/upload", [file |-> file], storage)
            IN /\ Dispatch(SetToBag({req}))
               /\ lastEvent' = Event("uploadFile", NoBody, NoAlert, SetToBag({req}))
    /\ UNCHANGED <<storage, file, filename, question, answer, qaHistory, langs,
                   selectedLang, audioUrl, showLogin, isLoggedIn, username, password,
                   urlCount, session, afterLogout>>

\* Mutant of uploadFileSettled: an uploaded file is no longer selected.
uploadFileSettledClearsSelection(r, res) ==
    /\ Tick
    /\ r \in Pending("/api/upload")
    /\ IF res.ok
       THEN LET sent == SetToBag({fetchHistoryRequest(storage)})
            IN /\ filename' = r.body.file
               /\ file' = NoFile
               /\ Settle(r, sent)
               /\ lastEvent' = Event("uploadFileSettled", res,
                                     "File uploaded successfully!", sent)
       ELSE /\ Settle(r, EmptyBag)
            /\ lastEvent' = Event("uploadFileSettled", res,
                                  "Upload failed - check backend logs.", EmptyBag)
            /\ UNCHANGED <<filename, file>>
    /\ UNCHANGED <<storage, question, answer, qaHistory, langs, selectedLang,
                   audioUrl, showLogin, isLoggedIn, username, password, urlCount,
                   session, afterLogout>>

\* Mutant of uploadFileSettled: fetchHistory is called after the try block,
\* on failure as on success.
uploadFileSettledAlwaysRefreshes(r, res) ==
    /\ Tick
    /\ r \in Pending("/api/upload")
    /\ LET sent == SetToBag({fetchHistoryRequest(storage)})
       IN /\ filename' = IF res.ok THEN r.body.file ELSE filename
          /\ Settle(r, sent)
          /\ lastEvent' = Event("uploadFileSettled", res,
                                IF res.ok THEN "File uploaded successfully!"
                                ELSE "Upload failed - check backend logs.", sent)
    /\ UNCHANGED <<storage, file, question, answer, qaHistory, langs, selectedLang,
                   audioUrl, showLogin, isLoggedIn, username, password, urlCount,
                   session, afterLogout>>

\* Mutant of uploadFileSettled: the name recorded is the one of the file
\* selected when the response arrives.
uploadFileSettledReadsCurrentFile(r, res) ==
    /\ Tick
    /\ r \in Pending("/api/upload")
    /\ IF res.ok
       THEN LET sent == SetToBag({fetchHistoryRequest(storage)})
            IN /\ filename' = file
               /\ Settle(r, sent)
               /\ lastEvent' = Event("uploadFileSettled", res,
                                     "File uploaded successfully!", sent)
       ELSE /\ Settle(r, EmptyBag)
            /\ lastEvent' = Event("uploadFileSettled", res,
                                  "Upload failed - check backend logs.", EmptyBag)
            /\ UNCHANGED filename
    /\ UNCHANGED <<storage, file, question, answer, qaHistory, langs, selectedLang,
                   audioUrl, showLogin, isLoggedIn, username, password, urlCount,
                   session, afterLogout>>

\* uploadFile after its await; `file` is the one the handler closed over,
\* which is the one it appended to the form.
uploadFileSettled(r, res) ==
    /\ Tick
    /\ r \in Pending("/api/upload")
    /\ IF res.ok
       THEN LET sent == SetToBag({fetchHistoryRequest(storage)})
            IN /\ filename' = r.body.file
               /\ Settle(r, sent)
               /\ lastEvent' = Event("uploadFileSettled", res,
                                     "File uploaded successfully!", sent)
       ELSE /\ Settle(r, EmptyBag)
            /\ lastEvent' = Event("uploadFileSettled", res,
                                  "Upload failed - check backend logs.", EmptyBag)
            /\ UNCHANGED filename
    /\ UNCHANGED <<storage, file, question, answer, qaHistory, langs, selectedLang,
                   audioUrl, showLogin, isLoggedIn, username, password, urlCount,
                   session, afterLogout>>

\* -------------------------------------------------------------------- ask
\* askQuestion up to its await (the Get Answer button, rendered while isLoggedIn).
askQuestion ==
    /\ Tick
    /\ isLoggedIn
    /\ IF ~Truthy(question)
       THEN /\ lastEvent' = Event("askQuestion", NoBody, "Enter a question", EmptyBag)
            /\ UNCHANGED inflight
       ELSE LET req == Request("/api/answer", [question |-> question], storage)
            IN /\ Dispatch(SetToBag({req}))
               /\ lastEvent' = Event("askQuestion", NoBody, NoAlert, SetToBag({req}))
    /\ UNCHANGED <<storage, file, filename, question, answer, qaHistory, langs,
                   selectedLang, audioUrl, showLogin, isLoggedIn, username, password,
                   urlCount, session, afterLogout>>

\* Mutant of askQuestionSettled: the new pair is appended to the history
\* before the refresh.
askQuestionSettledAppends(r, res) ==
    /\ Tick
    /\ r \in Pending("/api/answer")
    /\ IF res.ok
       THEN LET sent == SetToBag({fetchHistoryRequest(storage)})
            IN /\ answer' = res.data.answer
               /\ qaHistory' = Append(qaHistory, <<r.body.question, res.data.answer>>)
               /\ Settle(r, sent)
               /\ lastEvent' = Event("askQuestionSettled", res, NoAlert, sent)
       ELSE /\ Settle(r, EmptyBag)
            /\ lastEvent' = Event("askQuestionSettled", res, "Failed to get answer",
                                  EmptyBag)
            /\ UNCHANGED <<answer, qaHistory>>
    /\ UNCHANGED <<storage, file, filename, question, langs, selectedLang,
                   audioUrl, showLogin, isLoggedIn, username, password, urlCount,
                   session, afterLogout>>

\* Mutant of askQuestionSettled: a failed request is sent again.
askQuestionSettledRetries(r, res) ==
    /\ Tick
    /\ r \in Pending("/api/answer")
    /\ IF res.ok
       THEN LET sent == SetToBag({fetchHistoryRequest(storage)})
            IN /\ answer' = res.data.answer
               /\ Settle(r, sent)
               /\ lastEvent' = Event("askQuestionSettled", res, NoAlert, sent)
       ELSE /\ Settle(r, SetToBag({r}))
            /\ lastEvent' = Event("askQuestionSettled", res, "Failed to get answer",
                                  SetToBag({r}))
            /\ UNCHANGED answer
    /\ UNCHANGED <<storage, file, filename, question, qaHistory, langs, selectedLang,
                   audioUrl, showLogin, isLoggedIn, username, password, urlCount,
                   session, afterLogout>>

\* Mutant of askQuestionSettled: a response is dropped as stale while another
\* ask request is in flight.
askQuestionSettledDropsStale(r, res) ==
    /\ Tick
    /\ r \in Pending("/api/answer")
    /\ IF res.ok
       THEN LET sent == SetToBag({fetchHistoryRequest(storage)})
                stale == Pending("/api/answer") # {r} \/ CopiesIn(r, inflight) > 1
            IN /\ answer' = IF stale THEN answer ELSE res.data.answer
               /\ Settle(r, sent)
               /\ lastEvent' = Event("askQuestionSettled", res, NoAlert, sent)
       ELSE /\ Settle(r, EmptyBag)
            /\ lastEvent' = Event("askQuestionSettled", res, "Failed to get answer",
                                  EmptyBag)
            /\ UNCHANGED answer
    /\ UNCHANGED <<storage, file, filename, question, qaHistory, langs, selectedLang,
                   audioUrl, showLogin, isLoggedIn, username, password, urlCount,
                   session, afterLogout>>

\* askQuestion after its await.
askQuestionSettled(r, res) ==
    /\ Tick
    /\ r \in Pending("/api/answer")
    /\ IF res.ok
       THEN LET sent == SetToBag({fetchHistoryRequest(storage)})
            IN /\ answer' = res.data.answer
               /\ Settle(r, sent)
               /\ lastEvent' = Event("askQuestionSettled", res, NoAlert, sent)
       ELSE /\ Settle(r, EmptyBag)
            /\ lastEvent' = Event("askQuestionSettled", res, "Failed to get answer",
                                  EmptyBag)
            /\ UNCHANGED answer
    /\ UNCHANGED <<storage, file, filename, question, qaHistory, langs, selectedLang,
                   audioUrl, showLogin, isLoggedIn, username, password, urlCount,
                   session, afterLogout>>

\* ------------------------------------------------------------------ audio
\* Mutant of generateAudio: the request always carries the default code.
generateAudioSendsDefault ==
    /\ Tick
    /\ isLoggedIn
    /\ LET req == Request("/api/audiobook", [lang_code |-> "en"], storage)
       IN /\ Dispatch(SetToBag({req}))
          /\ lastEvent' = Event("generateAudio", NoBody, NoAlert, SetToBag({req}))
    /\ UNCHANGED <<storage, file, filename, question, answer, qaHistory, langs,
                   selectedLang, audioUrl, showLogin, isLoggedIn, username, password,
                   urlCount, session, afterLogout>>

\* generateAudio up to its await (the Generate Audio button, rendered while
\* isLoggedIn): no input is validated.
generateAudio ==
    /\ Tick
    /\ isLoggedIn
    /\ LET req == Request("/api/audiobook", [lang_code |-> selectedLang], storage)
       IN /\ Dispatch(SetToBag({req}))
          /\ lastEvent' = Event("generateAudio", NoBody, NoAlert, SetToBag({req}))
    /\ UNCHANGED <<storage, file, filename, question, answer, qaHistory, langs,
                   selectedLang, audioUrl, showLogin, isLoggedIn, username, password,
                   urlCount, session, afterLogout>>

\* The object URLs that are registered with the document: createObjectURL
\* registers the URL it returns, and the source never calls
\* URL.revokeObjectURL, so every URL created stays registered.
LiveObjectUrls == 1 .. urlCount

\* Mutant of generateAudioSettled: a failed generation removes the player.
generateAudioSettledClearsOnFailure(r, res) ==
    /\ Tick
    /\ r \in Pending("/api/audiobook")
    /\ IF res.ok
       THEN /\ urlCount' = urlCount + 1
            /\ audioUrl' = urlCount + 1
            /\ lastEvent' = Event("generateAudioSettled", res,
                                  "Audio generated successfully!", EmptyBag)
       ELSE /\ lastEvent' = Event("generateAudioSettled", res,
                                  "Audio generation failed - check backend logs.", EmptyBag)
            /\ audioUrl' = NoAudio
            /\ UNCHANGED urlCount
    /\ Settle(r, EmptyBag)
    /\ UNCHANGED <<storage, file, filename, question, answer, qaHistory, langs,
                   selectedLang, showLogin, isLoggedIn, username, password, session,
                   afterLogout>>

\* generateAudio after its await: URL.createObjectURL returns a fresh URL.
generateAudioSettled(r, res) ==
    /\ Tick
    /\ r \in Pending("/api/audiobook")
    /\ IF res.ok
       THEN /\ urlCount' = urlCount + 1
            /\ audioUrl' = urlCount + 1
            /\ lastEvent' = Event("generateAudioSettled", res,
                                  "Audio generated successfully!", EmptyBag)
       ELSE /\ lastEvent' = Event("generateAudioSettled", res,
                                  "Audio generation failed - check backend logs.",
                                  EmptyBag)
            /\ UNCHANGED <<urlCount, audioUrl>>
    /\ Settle(r, EmptyBag)
    /\ UNCHANGED <<storage, file, filename, question, answer, qaHistory, langs,
                   selectedLang, showLogin, isLoggedIn, username, password, session, afterLogout>>

\* ---------------------------------------------------------- specification
Next ==
    \/ \E v \in Names : setUsername(v)
    \/ \E v \in Names : setPassword(v)
    \/ \E v \in BOOLEAN : setShowLogin(v)
    \/ \E f \in Files \cup {NoFile} : setFile(f)
    \/ \E q \in Questions : setQuestion(q)
    \/ \E c \in DOMAIN langs : setSelectedLang(c)
    \/ handleLogin
    \/ \E r \in BagToSet(inflight), res \in LoginResponses : handleLoginSettled(r, res)
    \/ handleLogout
    \/ \E r \in BagToSet(inflight), res \in LangsResponses : fetchLangsSettled(r, res)
    \/ \E r \in BagToSet(inflight), res \in HistoryResponses : fetchHistorySettled(r, res)
    \/ uploadFile
    \/ \E r \in BagToSet(inflight), res \in UploadResponses : uploadFileSettled(r, res)
    \/ askQuestion
    \/ \E r \in BagToSet(inflight), res \in AnswerResponses : askQuestionSettled(r, res)
    \/ generateAudio
    \/ \E r \in BagToSet(inflight), res \in AudioResponses : generateAudioSettled(r, res)

Spec == Init /\ [][Next]_vars

\* ------------------------------------------------- the backend's Q&A log
\* In Spec the backend answers anything at all. The definitions of this
\* section follow the specification's account of the backend instead: it
\* owns the Q&A log, an ordered sequence to which every answered question is
\* appended, and GET /api/qa-history returns the log as it is when the request
\* is handled. A request in flight that the backend has handled carries the
\* response that is on its way back in the field `served`.
Served(r, v) == [url |-> r.url, auth |-> r.auth, body |-> r.body, served |-> v]
Unserved(url) == {r \in Pending(url) : "served" \notin DOMAIN r}
Answered(url) == {r \in Pending(url) : "served" \in DOMAIN r}

\* The backend handles POST /api/answer: the pair is appended to the log.
serveAnswer(r, a) ==
    /\ r \in Unserved("/api/answer")
    /\ serverLog' = Append(serverLog, <<r.body.question, a>>)
    /\ inflight' = (inflight (-) SetToBag({r})) (+) SetToBag({Served(r, a)})
    /\ UNCHANGED <<storage, view, urlCount, session, afterLogout, lastEvent, steps>>

\* The backend handles GET /api/qa-history: the response is the log of that
\* moment.
serveHistory(r) ==
    /\ r \in Unserved("/api/qa-history")
    /\ inflight' = (inflight (-) SetToBag({r})) (+) SetToBag({Served(r, serverLog)})
    /\ UNCHANGED <<storage, view, urlCount, session, afterLogout, lastEvent, steps,
                   serverLog>>

\* The responses reach the client, in any order.
answerArrives(r) ==
    /\ r \in Answered("/api/answer")
    /\ askQuestionSettled(r, Success([answer |-> r.served]))
historyArrives(r) ==
    /\ r \in Answered("/api/qa-history")
    /\ fetchHistorySettled(r, Success([qa_pairs |-> r.served]))

\* LoggedIn with the catalog and the (empty) history loaded and nothing in
\* flight: the state after a login against a backend whose log is empty.
InitServer ==
    /\ storage = "t1"
    /\ file = NoFile
    /\ filename = NoFile
    /\ question = ""
    /\ answer = ""
    /\ qaHistory = << >>
    /\ langs = Catalog({"en", "fr"})
    /\ selectedLang = "en"
    /\ audioUrl = NoAudio
    /\ showLogin = FALSE
    /\ isLoggedIn = TRUE
    /\ username = "u"
    /\ password = "u"
    /\ inflight = EmptyBag
    /\ urlCount = 0
    /\ session = "t1"
    /\ lastEvent = Event("fetchHistorySettled", Success([qa_pairs |-> << >>]), NoAlert,
                         EmptyBag)
    /\ afterLogout = FALSE
    /\ steps = 0
    /\ serverLog = << >>

\* The ask flow and the history loader against that backend; no request
\* fails.
NextServer ==
    \/ \E q \in Questions : setQuestion(q)
    \/ askQuestion
    \/ \E r \in BagToSet(inflight), a \in Answers : serveAnswer(r, a)
    \/ \E r \in BagToSet(inflight) : answerArrives(r)
    \/ \E r \in BagToSet(inflight) : serveHistory(r)
    \/ \E r \in BagToSet(inflight) : historyArrives(r)

SpecServer == InitServer /\ [][NextServer]_vars

\* ----------------------------------------------------------------- claims
\* The requests the last task dispatched, and what it was.
Sent == BagToSet(lastEvent.sent)
Ran(op) == lastEvent.op = op
LoginSucceeded(res) == res.ok /\ "token" \in DOMAIN res.data /\ Truthy(res.data.token)

AuthenticatedEndpoints ==
    {"/api/langs", "/api/qa-history", "/api/upload", "/api/answer", "/api/audiobook"}
GatedEndpoints == {"/api/upload", "/api/answer", "/api/audiobook", "/api/qa-history"}

\* C1: once a login response with token t has been processed, and until the
\* next logout or the next processed successful login response, every request
\* a task dispatches carries exactly Bearer t.
C1_RequestsCarryLoginToken ==
    session # NoToken => \A r \in Sent : r.auth = [scheme |-> "Bearer", credentials |-> session]

\* Witness of C1: a user request dispatched in the session of token t2.
C1_Witness ==
    /\ session = "t2" /\ Ran("askQuestion")
    /\ \E r \in Sent : r.url = "/api/answer" /\ r.auth.credentials = "t2"

\* C2 (as claimed): between a logout and the next invocation of login, no
\* dispatched request carries a bearer token, whatever responses arrive.
C2_NoTokenAfterLogout ==
    afterLogout => \A r \in Sent : r.auth.scheme # "Bearer"

\* C3 (as claimed): every request dispatched to an authenticated endpoint
\* carries a bearer token.
C3_AuthenticatedRequestsCarryToken ==
    \A r \in Sent : r.url \in AuthenticatedEndpoints => r.auth.scheme = "Bearer"

\* C4: the session starts LoggedOut; it becomes LoggedIn only by processing a
\* login response that contains a token, and LoggedOut only by logout.
C4_SessionStateMachine ==
    /\ (steps = 0 => ~isLoggedIn)
    /\ [][isLoggedIn' # isLoggedIn =>
            IF isLoggedIn'
            THEN lastEvent'.op = "handleLoginSettled" /\ LoginSucceeded(lastEvent'.arg)
            ELSE lastEvent'.op = "handleLogout"]_vars

\* Witness of C4: both transitions taken (a logout follows a login).
C4_Witness == Ran("handleLogout") /\ ~isLoggedIn /\ afterLogout

\* C5: LoggedIn implies that a token is stored.
C5_LoggedInImpliesToken == isLoggedIn => storage \in Tokens

\* Witness of C5: LoggedIn with the token t1 stored by the login just processed.
C5_Witness == isLoggedIn /\ storage = "t1" /\ Ran("handleLoginSettled")

\* C6 (as claimed): every request to the upload, answer, audiobook and
\* history endpoints is dispatched while the session is LoggedIn.
C6_GatedRequestsWhileLoggedIn ==
    \A r \in Sent : r.url \in GatedEndpoints => isLoggedIn

\* C7: login with an empty username or password, upload without a file and
\* ask with an empty question dispatch nothing, show a notification and leave
\* the stored token, the view state and the requests in flight unchanged.
ValidationFails ==
    \/ lastEvent'.op = "handleLogin" /\ (username = "" \/ password = "")
    \/ lastEvent'.op = "uploadFile" /\ file = NoFile
    \/ lastEvent'.op = "askQuestion" /\ question = ""
C7_ValidationBeforeNetwork ==
    [][ValidationFails =>
          /\ lastEvent'.sent = EmptyBag
          /\ lastEvent'.alert # NoAlert
          /\ UNCHANGED <<storage, view, inflight, urlCount>>]_vars

\* Witness of C7: a login refused for its empty password alone.
C7_Witness ==
    /\ Ran("handleLogin") /\ username = "u" /\ password = ""
    /\ lastEvent.alert = "Please enter username & password"

\* C8 (as claimed): each of upload, ask and generateAudio, invoked with its
\* required input empty (no file, empty question, empty language code),
\* dispatches nothing and shows the validation message; fetchHistory has no input.
C8_AllFlowsValidate ==
    (\/ Ran("uploadFile") /\ file = NoFile
     \/ Ran("askQuestion") /\ question = ""
     \/ Ran("generateAudio") /\ selectedLang = "")
    => lastEvent.sent = EmptyBag /\ lastEvent.alert # NoAlert

\* C8 (amended): upload and ask invoked with their input empty dispatch
\* nothing and show their validation message; generateAudio validates
\* nothing: it dispatches one audiobook request carrying the selected code,
\* even an empty one, and shows no message.
C8_UploadAndAskValidate ==
    /\ Ran("uploadFile") /\ file = NoFile
         => lastEvent.sent = EmptyBag /\ lastEvent.alert = "Pick a file first!"
    /\ Ran("askQuestion") /\ question = ""
         => lastEvent.sent = EmptyBag /\ lastEvent.alert = "Enter a question"
    /\ Ran("generateAudio")
         => /\ lastEvent.alert = NoAlert
            /\ BagCardinality(lastEvent.sent) = 1
            /\ \A r \in Sent : r.url = "/api/audiobook" /\ r.body.lang_code = selectedLang

\* Witness of C8: generateAudio invoked with the empty language code selected.
C8_Witness ==
    Ran("generateAudio") /\ selectedLang = "" /\ lastEvent.sent # EmptyBag

\* C9: processing a login response with token t stores exactly t, moves to
\* LoggedIn, hides the login prompt and dispatches a language-catalog request
\* and a history request, all of them carrying Bearer t.
C9_LoginSuccess ==
    Ran("handleLoginSettled") /\ LoginSucceeded(lastEvent.arg) =>
        LET t == lastEvent.arg.data.token
            carries == [scheme |-> "Bearer", credentials |-> t]
        IN /\ storage = t
           /\ isLoggedIn
           /\ ~showLogin
           /\ \E r \in Sent : r.url = "/api/langs"
           /\ \E r \in Sent : r.url = "/api/qa-history"
           /\ \A r \in Sent : r.url \in {"/api/langs", "/api/qa-history"} /\ r.auth = carries

\* Witness of C9: the response with token t2 processed while t1 was stored.
C9_Witness ==
    /\ Ran("handleLoginSettled") /\ LoginSucceeded(lastEvent.arg)
    /\ lastEvent.arg.data.token = "t2" /\ storage = "t2"
    /\ \E r \in BagToSet(inflight) : r.auth.credentials = "t1"

\* C10: processing a failed login (a failure, or a 2xx response with no token
\* or an empty one) shows a notification, leaves the session state and the
\* stored token as they were (LoggedOut stays LoggedOut) and dispatches nothing.
C10_LoginFailure ==
    [][lastEvent'.op = "handleLoginSettled" /\ ~LoginSucceeded(lastEvent'.arg) =>
          /\ lastEvent'.alert # NoAlert
          /\ lastEvent'.sent = EmptyBag
          /\ UNCHANGED <<storage, isLoggedIn, showLogin>>
          /\ (~isLoggedIn => ~isLoggedIn' /\ storage' = NoToken)]_vars

\* Witness of C10: a 2xx login response with an empty token, while LoggedOut.
C10_Witness ==
    /\ Ran("handleLoginSettled") /\ lastEvent.arg = Success([token |-> ""])
    /\ ~isLoggedIn /\ storage = NoToken /\ lastEvent.alert = "Invalid credentials"

\* C11: logout removes the stored token, empties the history, the answer and
\* the audio reference, moves the session to LoggedOut with the login prompt
\* shown, and dispatches no request.
C11_LogoutClears ==
    Ran("handleLogout") =>
        /\ storage = NoToken
        /\ qaHistory = << >> /\ answer = "" /\ audioUrl = NoAudio
        /\ ~isLoggedIn /\ showLogin
        /\ lastEvent.sent = EmptyBag

\* Witness of C11: a logout of a session in which audio had been generated.
C11_Witness == Ran("handleLogout") /\ urlCount > 0 /\ audioUrl = NoAudio

\* C12 (as claimed): after a successful audio generation exactly one object
\* URL is live, the one the view plays: every earlier one has been released.
C12_OneLiveAudioReference ==
    Ran("generateAudioSettled") /\ lastEvent.arg.ok => LiveObjectUrls = {audioUrl}

\* C13 (as claimed): a task dispatches one language-catalog request if it
\* processed a successful login response, and none otherwise.
C13_LangsOncePerLogin ==
    LET n == BagCardinality([r \in {x \in Sent : x.url = "/api/langs"} |-> lastEvent.sent[r]])
    IN IF Ran("handleLoginSettled") /\ LoginSucceeded(lastEvent.arg) THEN n = 1 ELSE n = 0

\* The number of requests to url that the last task dispatched.
SentTo(url) ==
    BagCardinality([r \in {x \in Sent : x.url = url} |-> lastEvent.sent[r]])

\* C14: a history request is dispatched only by the task that processes a
\* successful login, upload or ask response: never by one that processes a
\* failure, an audio response or a logout, nor by a user event.
C14_HistoryOnlyAfterSuccess ==
    SentTo("/api/qa-history") > 0 =>
        \/ Ran("handleLoginSettled") /\ LoginSucceeded(lastEvent.arg)
        \/ Ran("uploadFileSettled") /\ lastEvent.arg.ok
        \/ Ran("askQuestionSettled") /\ lastEvent.arg.ok

\* Witness of C14: the history request that follows a successful upload.
C14_Witness ==
    Ran("uploadFileSettled") /\ lastEvent.arg.ok /\ SentTo("/api/qa-history") = 1

\* C15: a successfully processed history response makes the history list
\* exactly the list of the response (order and duplicates kept, nothing of the
\* previous list left); a response without a list gives the empty list.
C15_HistoryReplaced ==
    Ran("fetchHistorySettled") /\ lastEvent.arg.ok =>
        IF "qa_pairs" \in DOMAIN lastEvent.arg.data
        THEN /\ Len(qaHistory) = Len(lastEvent.arg.data.qa_pairs)
             /\ \A i \in 1 .. Len(qaHistory) : qaHistory[i] = lastEvent.arg.data.qa_pairs[i]
        ELSE qaHistory = << >>

\* Witness of C15: the unsorted list with a duplicate, as served.
C15_Witness ==
    /\ Ran("fetchHistorySettled") /\ lastEvent.arg.ok
    /\ qaHistory = << <<"q", "a2">>, <<"q", "a1">>, <<"q", "a1">> >>

\* C16: a successfully processed ask response makes the answer exactly the
\* answer of the response and dispatches one history request and nothing
\* else; the history list is left as it was.
C16_AskSuccess ==
    [][lastEvent'.op = "askQuestionSettled" /\ lastEvent'.arg.ok =>
          /\ answer' = lastEvent'.arg.data.answer
          /\ qaHistory' = qaHistory
          /\ BagCardinality(lastEvent'.sent) = 1
          /\ \A r \in BagToSet(lastEvent'.sent) : r.url = "/api/qa-history"]_vars

\* Witness of C16: the answer a2 shown over a history that is not empty.
C16_Witness ==
    /\ Ran("askQuestionSettled") /\ lastEvent.arg.ok
    /\ answer = "a2" /\ qaHistory # << >> /\ SentTo("/api/qa-history") = 1

\* The request that the step settles: the one in flight of which one copy
\* fewer is in flight afterwards.
Settles(r) == CopiesIn(r, inflight') = CopiesIn(r, inflight) - 1

\* C17: a successfully processed upload response makes the recorded filename
\* the name of the file carried by the request it answers, whichever file is
\* selected by then, and dispatches one history request and nothing else.
C17_UploadSuccess ==
    [][lastEvent'.op = "uploadFileSettled" /\ lastEvent'.arg.ok =>
          /\ \E r \in BagToSet(inflight) :
                r.url = "/api/upload" /\ Settles(r) /\ filename' = r.body.file
          /\ BagCardinality(lastEvent'.sent) = 1
          /\ \A r \in BagToSet(lastEvent'.sent) : r.url = "/api/qa-history"]_vars

\* Witness of C17: a.pdf was uploaded and b.pdf selected before the response.
C17_Witness ==
    /\ Ran("uploadFileSettled") /\ lastEvent.arg.ok
    /\ filename = "a.pdf" /\ file = "b.pdf" /\ SentTo("/api/qa-history") = 1

\* The tasks that process an upload, ask or audio response.
FlowSettled == {"uploadFileSettled", "askQuestionSettled", "generateAudioSettled"}

\* C18: a failed upload, ask or audio response notifies the user, changes no
\* view-state field (filename, answer, history and audio reference among
\* them), nor the stored token, and dispatches no request.
C18_FlowFailure ==
    [][lastEvent'.op \in FlowSettled /\ ~lastEvent'.arg.ok =>
          /\ lastEvent'.alert # NoAlert
          /\ UNCHANGED <<view, storage, urlCount>>
          /\ lastEvent'.sent = EmptyBag]_vars

\* Witness of C18: a failed generation while a player is on the page.
C18_Witness ==
    /\ Ran("generateAudioSettled") /\ ~lastEvent.arg.ok
    /\ lastEvent.alert # NoAlert /\ audioUrl # NoAudio

\* The tasks that process a history or catalog response.
LoaderSettled == {"fetchHistorySettled", "fetchLangsSettled"}

\* C19: a failed history or catalog request notifies nobody and leaves the
\* history list and the catalog (and every other view-state field) as they
\* were.
C19_LoaderFailure ==
    [][lastEvent'.op \in LoaderSettled /\ ~lastEvent'.arg.ok =>
          /\ lastEvent'.alert = NoAlert
          /\ UNCHANGED <<view, storage>>
          /\ lastEvent'.sent = EmptyBag]_vars

\* Witness of C19: a failed loader request while a history or a catalog is
\* held.
C19_Witness ==
    /\ lastEvent.op \in LoaderSettled /\ ~lastEvent.arg.ok
    /\ qaHistory # << >> \/ langs # EmptyCatalog

\* C20: the selected code starts as "en" and changes only when the user
\* chooses an option; Generate Audio dispatches one request, to the audiobook
\* endpoint, with the code selected at that moment.
C20_AudioCarriesSelectedLang ==
    /\ steps = 0 => selectedLang = "en"
    /\ [][/\ selectedLang' # selectedLang => lastEvent'.op = "setSelectedLang"
          /\ lastEvent'.op = "generateAudio" =>
                /\ BagCardinality(lastEvent'.sent) = 1
                /\ \A r \in BagToSet(lastEvent'.sent) :
                      r.url = "/api/audiobook" /\ r.body.lang_code = selectedLang]_vars

\* Witness of C20: audio requested in the default language while the catalog
\* is not loaded.
C20_Witness ==
    /\ Ran("generateAudio") /\ langs = EmptyCatalog /\ selectedLang = "en"
    /\ \E r \in Sent : r.url = "/api/audiobook" /\ r.body.lang_code = "en"

\* The last task dispatched one request, to url, and nothing else.
SentOnly(url) == BagCardinality(lastEvent.sent) = 1 /\ SentTo(url) = 1

\* The tasks that process a response.
AllSettled == FlowSettled \cup LoaderSettled \cup {"handleLoginSettled"}

\* C21: login, upload, ask and generateAudio, invoked with their required
\* input present, dispatch exactly one request, to their endpoint; the task
\* that processes a failed response (for login also a response without a
\* token) dispatches nothing.
C21_NoRetry ==
    /\ Ran("handleLogin") /\ username # "" /\ password # "" => SentOnly("/api/login")
    /\ Ran("uploadFile") /\ file # NoFile => SentOnly("/api/upload")
    /\ Ran("askQuestion") /\ question # "" => SentOnly("/api/answer")
    /\ Ran("generateAudio") => SentOnly("/api/audiobook")
    /\ lastEvent.op \in AllSettled /\ ~lastEvent.arg.ok => lastEvent.sent = EmptyBag
    /\ Ran("handleLoginSettled") /\ ~LoginSucceeded(lastEvent.arg)
          => lastEvent.sent = EmptyBag

\* Witness of C21: a failed ask response with nothing left in flight.
C21_Witness ==
    /\ Ran("askQuestionSettled") /\ ~lastEvent.arg.ok
    /\ Pending("/api/answer") = {} /\ lastEvent.sent = EmptyBag

\* C22: every successful response is applied when it arrives, whatever other
\* requests to the same endpoint are in flight or were answered before: the
\* answer, the filename, the audio reference and the history list become the
\* value of the response processed last.
C22_LastResponseWins ==
    [][/\ lastEvent'.op = "askQuestionSettled" /\ lastEvent'.arg.ok
             => answer' = lastEvent'.arg.data.answer
       /\ lastEvent'.op = "uploadFileSettled" /\ lastEvent'.arg.ok
             => \E r \in Pending("/api/upload") : Settles(r) /\ filename' = r.body.file
       /\ lastEvent'.op = "generateAudioSettled" /\ lastEvent'.arg.ok
             => audioUrl' \notin LiveObjectUrls /\ audioUrl' # NoAudio
       /\ lastEvent'.op = "fetchHistorySettled" /\ lastEvent'.arg.ok
               /\ "qa_pairs" \in DOMAIN lastEvent'.arg.data
             => qaHistory' = lastEvent'.arg.data.qa_pairs]_vars

\* Witness of C22: the response to the upload of b.pdf is applied while the
\* upload of a.pdf is still in flight.
C22_Witness ==
    /\ Ran("uploadFileSettled") /\ lastEvent.arg.ok /\ filename = "b.pdf"
    /\ \E r \in Pending("/api/upload") : r.body.file = "a.pdf"

\* C23: a processed upload response changes no view-state field but the
\* filename, an ask response none but the answer, an audio response none but
\* the audio reference, a catalog response none but the catalog and a history
\* response none but the history list; none changes the stored token.
C23_DisjointFields ==
    [][/\ lastEvent'.op = "uploadFileSettled" =>
             UNCHANGED <<storage, file, question, answer, qaHistory, langs, selectedLang,
                         audioUrl, showLogin, isLoggedIn, username, password>>
       /\ lastEvent'.op = "askQuestionSettled" =>
             UNCHANGED <<storage, file, filename, question, qaHistory, langs,
                         selectedLang, audioUrl, showLogin, isLoggedIn, username, password>>
       /\ lastEvent'.op = "generateAudioSettled" =>
             UNCHANGED <<storage, file, filename, question, answer, qaHistory, langs,
                         selectedLang, showLogin, isLoggedIn, username, password>>
       /\ lastEvent'.op = "fetchLangsSettled" =>
             UNCHANGED <<storage, file, filename, question, answer, qaHistory,
                         selectedLang, audioUrl, showLogin, isLoggedIn, username, password>>
       /\ lastEvent'.op = "fetchHistorySettled" =>
             UNCHANGED <<storage, file, filename, question, answer, langs,
                         selectedLang, audioUrl, showLogin, isLoggedIn, username,
                         password>>]_vars

\* Upload, ask and audio requests in flight at the same time: a state the
\* program reaches in nine tasks (log in, select a file, Upload, type a
\* question, Ask, Generate Audio).
AllFlowsInFlight ==
    /\ Pending("/api/upload") # {} /\ Pending("/api/answer") # {}
    /\ Pending("/api/audiobook") # {}

\* Witness of C23: an audio response is processed while an upload is in
\* flight, and only the audio reference has changed.
C23_Witness ==
    /\ Ran("generateAudioSettled") /\ lastEvent.arg.ok /\ audioUrl # NoAudio
    /\ Pending("/api/upload") # {} /\ filename = NoFile /\ answer = ""

\* C24: the stored token changes only when a login response with a token is
\* processed (the token of the response is stored) and on logout (the token is
\* removed).
C24_TokenWriters ==
    [][storage' # storage =>
          \/ /\ lastEvent'.op = "handleLoginSettled" /\ LoginSucceeded(lastEvent'.arg)
             /\ storage' = lastEvent'.arg.data.token
          \/ lastEvent'.op = "handleLogout" /\ storage' = NoToken]_vars

\* Witness of C24: a failed login response processed while a token is stored.
C24_Witness ==
    /\ Ran("handleLoginSettled") /\ ~LoginSucceeded(lastEvent.arg)
    /\ storage \in Tokens

\* C25 (as claimed): from a logout until login is invoked again, the session
\* is LoggedOut, whatever responses arrive.
C25_LoggedOutAfterLogout == afterLogout => ~isLoggedIn

\* C26 (as claimed): while the session is LoggedOut after a logout, the history
\* list and the answer are empty and there is no audio reference.
C26_ClearedWhileLoggedOut ==
    afterLogout /\ ~isLoggedIn =>
        qaHistory = << >> /\ answer = "" /\ audioUrl = NoAudio

\* C27 (as claimed): whenever no request is in flight, the history list
\* equals the backend's log, whatever the order in which the responses to the
\* ask and history requests arrived. Checked under SpecServer, where every
\* request succeeds, the most recent history request among them.
C27_HistoryMatchesServer == inflight = EmptyBag => qaHistory = serverLog

\* C28 (as claimed): while the catalog held is not empty, the language code
\* of an audiobook request is one of its keys.
C28_CodeInCatalog ==
    Ran("generateAudio") /\ langs # EmptyCatalog =>
        \A r \in Sent : r.body.lang_code \in DOMAIN langs

\* C29: logout leaves the recorded filename, the selected file, the catalog,
\* the selected code, the question and the username and password inputs as
\* they were, and so does the login that follows (its invocation and its
\* response).
C29_LogoutKeepsInputs ==
    [][lastEvent'.op \in {"handleLogout", "handleLogin", "handleLoginSettled"} =>
          UNCHANGED <<filename, file, langs, selectedLang, question, username,
                      password>>]_vars

\* Witness of C29: a logout with credentials typed, a catalog loaded, a code
\* chosen, a question typed and a file selected.
C29_Witness ==
    /\ Ran("handleLogout")
    /\ username = "u" /\ password = "u" /\ langs # EmptyCatalog
    /\ selectedLang = "fr" /\ question = "q" /\ file = "a.pdf"

\* C30: LoggedIn implies that the login prompt is hidden, and login is
\* invoked (so a login request dispatched) only while LoggedOut.
C30_PromptHiddenWhileLoggedIn ==
    /\ isLoggedIn => ~showLogin
    /\ Ran("handleLogin") => ~isLoggedIn /\ showLogin
    /\ SentTo("/api/login") > 0 => Ran("handleLogin") /\ ~isLoggedIn

\* Witness of C30: LoggedIn with the prompt hidden while a second login
\* request, dispatched before the first was answered, is still in flight.
C30_Witness ==
    isLoggedIn /\ ~showLogin /\ Pending("/api/login") # {}
=============================================================================
